---- MODULE Spec2Model ----
(***************************************************************************)
(* State machine of runtara-tui: the App view model (src/src/app.rs) and   *)
(* the event loop that drives it (src/src/main.rs, run_app).               *)
(*                                                                         *)
(* The loop is single threaded and is suspended while an async method of  *)
(* App awaits a remote call, so each method runs from entry to return      *)
(* without interleaving: one action per key handler and per loop step.     *)
(***************************************************************************)
EXTENDS Integers, Sequences, FiniteSets, TLC

VARIABLES
    app,      \* the App struct (app.rs:101-159), one field per struct field
    pc,       \* position of run_app in its loop
    op,       \* the async App method the last step of the loop ran, if any
    calls,    \* the remote calls that method issued, in order, with outcomes
    key       \* the key code the last step of the loop read, if any, in
              \* the behaviours that record it

vars == <<app, pc, op, calls, key>>

-----------------------------------------------------------------------------
(* Bounds of the model.                                                    *)

\* refresh_interval (main.rs:63), in ticks of the model's clock
RefreshInterval == 1
\* longest instance page the server returns
MaxInstances == 2
\* longest image page the server returns
MaxImages == 2
\* largest number of metrics buckets the server returns
MaxBuckets == 2
\* longest checkpoint page the server returns
MaxCheckpoints == 2
\* scroll_down is not taken beyond this offset
MaxScroll == 1

-----------------------------------------------------------------------------
(* Option<T> and Result<T, E>: the empty sequence is None / Err(e), a      *)
(* one-element sequence is Some(x) / Ok(x).                                *)

None == <<>>
Some(x) == <<x>>
IsSome(o) == Len(o) = 1
Unwrap(o) == o[1]
Err == <<>>
Ok(x) == <<x>>
IsOk(r) == Len(r) = 1

Min(x, y) == IF x <= y THEN x ELSE y

\* Vec indexing is 0-based, Sequences are 1-based
At(v, i) == v[i + 1]

-----------------------------------------------------------------------------
(* Enumerations.                                                           *)

StatusFilters == {"All", "Running", "Completed", "Failed", "Pending", "Suspended"}
Tabs == {"Instances", "Images", "Metrics", "Health"}
ViewModes == {"List", "InstanceDetail", "CheckpointsList", "CheckpointDetail"}
Granularities == {"Hourly", "Daily"}

\* StatusFilterNext, passing over Pending
StatusFilterNext_skipping(f) ==
    CASE f = "All" -> "Running"
      [] f = "Running" -> "Completed"
      [] f = "Completed" -> "Failed"
      [] f = "Failed" -> "Suspended"
      [] f = "Pending" -> "Suspended"
      [] f = "Suspended" -> "All"

\* StatusFilter::next
StatusFilterNext(f) ==
    CASE f = "All" -> "Running"
      [] f = "Running" -> "Completed"
      [] f = "Completed" -> "Failed"
      [] f = "Failed" -> "Pending"
      [] f = "Pending" -> "Suspended"
      [] f = "Suspended" -> "All"

\* The error messages, each by the fixed text that starts it.
ErrCreateSdk == "Failed to create SDK"
ErrConnect == "Connection failed"
ErrHealth == "Health check failed"
ErrInstances == "Failed to list instances"
ErrImages == "Failed to list images"
ErrMetrics == "Failed to get metrics"
ErrInstanceDetail == "Failed to get instance details"
ErrCheckpoints == "Failed to list checkpoints"
ErrCheckpointNotFound == "Checkpoint not found"
ErrCheckpoint == "Failed to get checkpoint"

-----------------------------------------------------------------------------
(* App::new                                                                *)

new(tenant) ==
    [ tenant_id            |-> tenant,
      tab                  |-> "Instances",
      view_mode            |-> "List",
      status_filter        |-> "All",
      health               |-> None,
      instances            |-> <<>>,
      instances_total      |-> 0,
      instances_selected   |-> 0,
      images               |-> <<>>,
      images_total         |-> 0,
      images_selected      |-> 0,
      instance_detail      |-> None,
      checkpoints          |-> <<>>,
      checkpoints_total    |-> 0,
      checkpoints_selected |-> 0,
      checkpoint_detail    |-> None,
      metrics              |-> None,
      metrics_granularity  |-> "Hourly",
      metrics_selected     |-> 0,
      detail_scroll        |-> 0,
      last_refresh         |-> None,
      error                |-> None,
      connected            |-> FALSE ]

-----------------------------------------------------------------------------
(* The synchronous mutators of App.                                        *)

\* should_refresh, never due before a cycle has left its timestamp
should_refresh_stamped(a) ==
    IsSome(a.last_refresh) /\ Unwrap(a.last_refresh) >= RefreshInterval

\* should_refresh, due only until the first cycle has left its timestamp
should_refresh_once(a) == ~IsSome(a.last_refresh)

\* Instant::elapsed() >= refresh_interval.  last_refresh holds, for
\* Some(instant), the time elapsed since that instant (the only way the
\* program reads it); Tick lets it grow up to RefreshInterval.
should_refresh(a) ==
    IF IsSome(a.last_refresh)
    THEN Unwrap(a.last_refresh) >= RefreshInterval
    ELSE TRUE

next_tab(a) ==
    [a EXCEPT !.tab = CASE a.tab = "Instances" -> "Images"
                        [] a.tab = "Images" -> "Metrics"
                        [] a.tab = "Metrics" -> "Health"
                        [] a.tab = "Health" -> "Instances"]

\* previous_tab without the wrap from the first tab to the last
previous_tab_stopping(a) ==
    [a EXCEPT !.tab = CASE a.tab = "Instances" -> "Instances"
                        [] a.tab = "Images" -> "Instances"
                        [] a.tab = "Metrics" -> "Images"
                        [] a.tab = "Health" -> "Metrics"]

previous_tab(a) ==
    [a EXCEPT !.tab = CASE a.tab = "Instances" -> "Health"
                        [] a.tab = "Images" -> "Instances"
                        [] a.tab = "Metrics" -> "Images"
                        [] a.tab = "Health" -> "Metrics"]

set_tab(a, index) ==
    [a EXCEPT !.tab = CASE index = 0 -> "Instances"
                        [] index = 1 -> "Images"
                        [] index = 2 -> "Metrics"
                        [] index = 3 -> "Health"
                        [] OTHER -> "Instances"]

\* (selected + 1) % len
WrapNext(selected, len) == (selected + 1) % len

\* WrapPrevious, stopping at the first item
WrapPrevious_saturating(selected, len) ==
    IF selected >= 1 THEN selected - 1 ELSE 0

\* selected.checked_sub(1).unwrap_or(len - 1)
WrapPrevious(selected, len) == IF selected >= 1 THEN selected - 1 ELSE len - 1

next_item(a) ==
    CASE a.tab = "Instances" ->
            IF a.instances # <<>>
            THEN [a EXCEPT !.instances_selected =
                               WrapNext(a.instances_selected, Len(a.instances))]
            ELSE a
      [] a.tab = "Images" ->
            IF a.images # <<>>
            THEN [a EXCEPT !.images_selected =
                               WrapNext(a.images_selected, Len(a.images))]
            ELSE a
      [] a.tab = "Metrics" ->
            IF IsSome(a.metrics) /\ Unwrap(a.metrics).buckets # <<>>
            THEN [a EXCEPT !.metrics_selected =
                               WrapNext(a.metrics_selected, Len(Unwrap(a.metrics).buckets))]
            ELSE a
      [] a.tab = "Health" -> a

previous_item(a) ==
    CASE a.tab = "Instances" ->
            IF a.instances # <<>>
            THEN [a EXCEPT !.instances_selected =
                               WrapPrevious(a.instances_selected, Len(a.instances))]
            ELSE a
      [] a.tab = "Images" ->
            IF a.images # <<>>
            THEN [a EXCEPT !.images_selected =
                               WrapPrevious(a.images_selected, Len(a.images))]
            ELSE a
      [] a.tab = "Metrics" ->
            IF IsSome(a.metrics) /\ Unwrap(a.metrics).buckets # <<>>
            THEN [a EXCEPT !.metrics_selected =
                               WrapPrevious(a.metrics_selected, Len(Unwrap(a.metrics).buckets))]
            ELSE a
      [] a.tab = "Health" -> a

cycle_status_filter(a) ==
    [a EXCEPT !.status_filter = StatusFilterNext(a.status_filter)]

\* toggle_metrics_granularity, leaving the metrics selection
toggle_metrics_granularity_keeping(a) ==
    [a EXCEPT !.metrics_granularity =
                  IF a.metrics_granularity = "Hourly" THEN "Daily" ELSE "Hourly"]

toggle_metrics_granularity(a) ==
    [a EXCEPT !.metrics_granularity =
                  IF a.metrics_granularity = "Hourly" THEN "Daily" ELSE "Hourly",
              !.metrics_selected = 0]

\* go_back, returning to the base frame from every frame
go_back_home(a) ==
    CASE a.view_mode = "List" -> a
      [] a.view_mode = "InstanceDetail" ->
            [a EXCEPT !.view_mode = "List",
                      !.instance_detail = None,
                      !.detail_scroll = 0]
      [] a.view_mode = "CheckpointsList" ->
            [a EXCEPT !.view_mode = "List",
                      !.checkpoints = <<>>,
                      !.checkpoints_total = 0,
                      !.checkpoints_selected = 0]
      [] a.view_mode = "CheckpointDetail" ->
            [a EXCEPT !.view_mode = "List",
                      !.checkpoint_detail = None,
                      !.detail_scroll = 0]

\* go_back, leaving the checkpoint detail record when its frame is popped
go_back_keeping_detail(a) ==
    CASE a.view_mode = "List" -> a
      [] a.view_mode = "InstanceDetail" ->
            [a EXCEPT !.view_mode = "List",
                      !.instance_detail = None,
                      !.detail_scroll = 0]
      [] a.view_mode = "CheckpointsList" ->
            [a EXCEPT !.view_mode = "InstanceDetail",
                      !.checkpoints = <<>>,
                      !.checkpoints_total = 0,
                      !.checkpoints_selected = 0]
      [] a.view_mode = "CheckpointDetail" ->
            [a EXCEPT !.view_mode = "CheckpointsList",
                      !.detail_scroll = 0]

\* go_back, leaving the checkpoint selection when the list is popped
go_back_keeping_selection(a) ==
    CASE a.view_mode = "List" -> a
      [] a.view_mode = "InstanceDetail" ->
            [a EXCEPT !.view_mode = "List",
                      !.instance_detail = None,
                      !.detail_scroll = 0]
      [] a.view_mode = "CheckpointsList" ->
            [a EXCEPT !.view_mode = "InstanceDetail",
                      !.checkpoints = <<>>,
                      !.checkpoints_total = 0]
      [] a.view_mode = "CheckpointDetail" ->
            [a EXCEPT !.view_mode = "CheckpointsList",
                      !.checkpoint_detail = None,
                      !.detail_scroll = 0]

\* go_back, leaving the scroll offset of the closed InstanceDetail frame
go_back_scrolled(a) ==
    CASE a.view_mode = "List" -> a
      [] a.view_mode = "InstanceDetail" ->
            [a EXCEPT !.view_mode = "List",
                      !.instance_detail = None]
      [] a.view_mode = "CheckpointsList" ->
            [a EXCEPT !.view_mode = "InstanceDetail",
                      !.checkpoints = <<>>,
                      !.checkpoints_total = 0,
                      !.checkpoints_selected = 0]
      [] a.view_mode = "CheckpointDetail" ->
            [a EXCEPT !.view_mode = "CheckpointsList",
                      !.checkpoint_detail = None,
                      !.detail_scroll = 0]

go_back(a) ==
    CASE a.view_mode = "List" -> a
      [] a.view_mode = "InstanceDetail" ->
            [a EXCEPT !.view_mode = "List",
                      !.instance_detail = None,
                      !.detail_scroll = 0]
      [] a.view_mode = "CheckpointsList" ->
            [a EXCEPT !.view_mode = "InstanceDetail",
                      !.checkpoints = <<>>,
                      !.checkpoints_total = 0,
                      !.checkpoints_selected = 0]
      [] a.view_mode = "CheckpointDetail" ->
            [a EXCEPT !.view_mode = "CheckpointsList",
                      !.checkpoint_detail = None,
                      !.detail_scroll = 0]

\* detail_scroll is a u16
U16Max == 65535


\* the offsets the model follows: those near 0 and those near U16Max
ScrollWindow == (0..MaxScroll) \cup ((U16Max - MaxScroll)..U16Max)

\* scroll_down with a wrapping add
scroll_down_wrapping(a) ==
    [a EXCEPT !.detail_scroll = (a.detail_scroll + 1) % (U16Max + 1)]

\* u16::saturating_sub(1)
scroll_up(a) ==
    [a EXCEPT !.detail_scroll = IF a.detail_scroll = 0 THEN 0 ELSE a.detail_scroll - 1]

\* u16::saturating_add(1)
scroll_down(a) ==
    [a EXCEPT !.detail_scroll = Min(a.detail_scroll + 1, U16Max)]

next_checkpoint(a) ==
    IF a.checkpoints # <<>>
    THEN [a EXCEPT !.checkpoints_selected =
                       WrapNext(a.checkpoints_selected, Len(a.checkpoints))]
    ELSE a

previous_checkpoint(a) ==
    IF a.checkpoints # <<>>
    THEN [a EXCEPT !.checkpoints_selected =
                       WrapPrevious(a.checkpoints_selected, Len(a.checkpoints))]
    ELSE a

-----------------------------------------------------------------------------
(* App::refresh, one operator per stretch of code between two awaits.      *)

\* the selection after a collection of length len replaced the old one
ClampSelected(selected, len) ==
    IF selected >= len /\ len # 0 THEN len - 1 ELSE selected

\* refresh_enter, scrolling the open detail back to its top
refresh_enter_rewinding(a) == [a EXCEPT !.error = None, !.detail_scroll = 0]

\* refresh_enter, leaving the error slot as it is
refresh_enter_keeping(a) == a

\* self.error = None
refresh_enter(a) == [a EXCEPT !.error = None]

\* create_sdk() returned Err
refresh_sdk_failed(a) ==
    [a EXCEPT !.error = Some(ErrCreateSdk), !.connected = FALSE]

\* refresh_connect, not clearing the connected flag on failure
refresh_connect_flag_kept(a, r) ==
    IF IsOk(r)
    THEN [a EXCEPT !.connected = TRUE]
    ELSE [a EXCEPT !.error = Some(ErrConnect)]

\* sdk.connect().await resolved with r
refresh_connect(a, r) ==
    IF IsOk(r)
    THEN [a EXCEPT !.connected = TRUE]
    ELSE [a EXCEPT !.error = Some(ErrConnect), !.connected = FALSE]

\* sdk.health_check().await resolved with r
refresh_health(a, r) ==
    IF IsOk(r)
    THEN [a EXCEPT !.health = Some(Unwrap(r))]
    ELSE [a EXCEPT !.error = Some(ErrHealth)]

\* refresh_instances without the clamp of the selection
refresh_instances_unclamped(a, r) ==
    IF IsOk(r)
    THEN [a EXCEPT !.instances = Unwrap(r).items,
                   !.instances_total = Unwrap(r).total_count]
    ELSE [a EXCEPT !.error = Some(ErrInstances)]

\* refresh_instances, dropping the list when the fetch fails
refresh_instances_dropping(a, r) ==
    IF IsOk(r)
    THEN [a EXCEPT !.instances = Unwrap(r).items,
                   !.instances_total = Unwrap(r).total_count,
                   !.instances_selected =
                       ClampSelected(a.instances_selected, Len(Unwrap(r).items))]
    ELSE [a EXCEPT !.error = Some(ErrInstances),
                   !.instances = <<>>,
                   !.instances_total = 0,
                   !.instances_selected = 0]

\* refresh_instances, dropping the instance detail with the old list
refresh_instances_forgetting(a, r) ==
    IF IsOk(r)
    THEN [a EXCEPT !.instances = Unwrap(r).items,
                   !.instances_total = Unwrap(r).total_count,
                   !.instances_selected =
                       ClampSelected(a.instances_selected, Len(Unwrap(r).items)),
                   !.instance_detail = None]
    ELSE [a EXCEPT !.error = Some(ErrInstances)]

\* sdk.list_instances(options).await resolved with r
refresh_instances(a, r) ==
    IF IsOk(r)
    THEN [a EXCEPT !.instances = Unwrap(r).items,
                   !.instances_total = Unwrap(r).total_count,
                   !.instances_selected =
                       ClampSelected(a.instances_selected, Len(Unwrap(r).items))]
    ELSE [a EXCEPT !.error = Some(ErrInstances)]

\* refresh_images, keeping an error already in the slot
refresh_images_first_error(a, r) ==
    IF IsOk(r)
    THEN [a EXCEPT !.images = Unwrap(r).items,
                   !.images_total = Unwrap(r).total_count,
                   !.images_selected =
                       ClampSelected(a.images_selected, Len(Unwrap(r).items))]
    ELSE IF IsSome(a.error) THEN a
    ELSE [a EXCEPT !.error = Some(ErrImages)]

\* sdk.list_images(options).await resolved with r
refresh_images(a, r) ==
    IF IsOk(r)
    THEN [a EXCEPT !.images = Unwrap(r).items,
                   !.images_total = Unwrap(r).total_count,
                   !.images_selected =
                       ClampSelected(a.images_selected, Len(Unwrap(r).items))]
    ELSE [a EXCEPT !.error = Some(ErrImages)]

\* sdk.get_tenant_metrics(options).await resolved with r
refresh_metrics(a, r) ==
    IF IsOk(r)
    THEN [a EXCEPT !.metrics = Some(Unwrap(r)),
                   !.metrics_selected =
                       ClampSelected(a.metrics_selected, Len(Unwrap(r).buckets))]
    ELSE [a EXCEPT !.error = Some(ErrMetrics)]

\* self.last_refresh = Some(Instant::now())
refresh_stamp(a) == [a EXCEPT !.last_refresh = Some(0)]

-----------------------------------------------------------------------------
(* The drill-down fetches, one operator per stretch between two awaits.    *)

\* create_sdk() returned Err in a drill-down method
open_sdk_failed(a) == [a EXCEPT !.error = Some(ErrCreateSdk)]

\* open_connect_failed, clearing the connected flag as refresh does
open_connect_failed_flagging(a) ==
    [a EXCEPT !.error = Some(ErrConnect), !.connected = FALSE]

\* sdk.connect().await resolved with Err in a drill-down method
open_connect_failed(a) == [a EXCEPT !.error = Some(ErrConnect)]

\* open_instance_detail_fetched, opening the frame on failure too
open_instance_detail_blind(a, r) ==
    IF IsOk(r)
    THEN [a EXCEPT !.instance_detail = Some(Unwrap(r)),
                   !.view_mode = "InstanceDetail",
                   !.detail_scroll = 0]
    ELSE [a EXCEPT !.error = Some(ErrInstanceDetail),
                   !.view_mode = "InstanceDetail",
                   !.detail_scroll = 0]

\* sdk.get_instance_status(instance_id).await resolved with r
open_instance_detail_fetched(a, r) ==
    IF IsOk(r)
    THEN [a EXCEPT !.instance_detail = Some(Unwrap(r)),
                   !.view_mode = "InstanceDetail",
                   !.detail_scroll = 0]
    ELSE [a EXCEPT !.error = Some(ErrInstanceDetail)]

\* open_checkpoints_list_fetched, closing the instance detail on failure
open_checkpoints_list_closing(a, r) ==
    IF IsOk(r)
    THEN [a EXCEPT !.checkpoints = Unwrap(r).items,
                   !.checkpoints_total = Unwrap(r).total_count,
                   !.checkpoints_selected = 0,
                   !.view_mode = "CheckpointsList"]
    ELSE [a EXCEPT !.error = Some(ErrCheckpoints),
                   !.instance_detail = None,
                   !.view_mode = "List"]

\* sdk.list_checkpoints(&instance_id, options).await resolved with r
open_checkpoints_list_fetched(a, r) ==
    IF IsOk(r)
    THEN [a EXCEPT !.checkpoints = Unwrap(r).items,
                   !.checkpoints_total = Unwrap(r).total_count,
                   !.checkpoints_selected = 0,
                   !.view_mode = "CheckpointsList"]
    ELSE [a EXCEPT !.error = Some(ErrCheckpoints)]

\* open_checkpoint_detail_fetched, opening the frame on Ok(None) too
open_checkpoint_detail_unchecked(a, r) ==
    IF IsOk(r)
    THEN [a EXCEPT !.checkpoint_detail = Unwrap(r),
                   !.view_mode = "CheckpointDetail",
                   !.detail_scroll = 0,
                   !.error = IF IsSome(Unwrap(r)) THEN a.error
                             ELSE Some(ErrCheckpointNotFound)]
    ELSE [a EXCEPT !.error = Some(ErrCheckpoint)]

\* open_checkpoint_detail_fetched, leaving the scroll offset as it is
open_checkpoint_detail_unscrolled(a, r) ==
    IF IsOk(r)
    THEN IF IsSome(Unwrap(r))
         THEN [a EXCEPT !.checkpoint_detail = Some(Unwrap(Unwrap(r))),
                        !.view_mode = "CheckpointDetail"]
         ELSE [a EXCEPT !.error = Some(ErrCheckpointNotFound)]
    ELSE [a EXCEPT !.error = Some(ErrCheckpoint)]

\* sdk.get_checkpoint(&instance_id, &checkpoint_id).await resolved with r
open_checkpoint_detail_fetched(a, r) ==
    IF IsOk(r)
    THEN IF IsSome(Unwrap(r))
         THEN [a EXCEPT !.checkpoint_detail = Some(Unwrap(Unwrap(r))),
                        !.view_mode = "CheckpointDetail",
                        !.detail_scroll = 0]
         ELSE [a EXCEPT !.error = Some(ErrCheckpointNotFound)]
    ELSE [a EXCEPT !.error = Some(ErrCheckpoint)]

-----------------------------------------------------------------------------------------------------------------------------------------------------
(* The async methods of App, whole.  The loop is suspended while a method  *)
(* awaits, so a method runs from entry to return without interleaving; its *)
(* argument o gives the result of every call it may await.  A method is    *)
(* run on [app, calls]: the App and the log of the remote calls issued.    *)

\* one entry of the log of remote calls: the call, its arguments, its result
Call(name, arg, r) == [call |-> name, arg |-> arg, result |-> r]

\* method entry
Enter(a) == [app |-> a, calls |-> <<>>]

\* code without a remote call: s.app becomes a2
Then(s, a2) == [s EXCEPT !.app = a2]

\* `call(arg).await` resolves with r, and the match on it leaves a2
Await(s, name, arg, r, a2) ==
    [app |-> a2, calls |-> Append(s.calls, Call(name, arg, r))]

\* app.rs:236-241
fetch_health(s, o) ==
    Await(s, "health_check", <<>>, o.health, refresh_health(s.app, o.health))

\* app.rs:244-262
fetch_instances(s, o) ==
    Await(s, "list_instances", <<s.app.tenant_id, s.app.status_filter>>,
          o.instances, refresh_instances(s.app, o.instances))

\* app.rs:265-282
fetch_images(s, o) ==
    Await(s, "list_images", <<s.app.tenant_id>>, o.images,
          refresh_images(s.app, o.images))

\* fetch_metrics, not looking at tenant_id
fetch_metrics_ungated(s, o) ==
    Await(s, "get_tenant_metrics",
          <<s.app.tenant_id, s.app.metrics_granularity>>, o.metrics,
          refresh_metrics(s.app, o.metrics))

\* app.rs:285-301
fetch_metrics(s, o) ==
    IF IsSome(s.app.tenant_id)
    THEN Await(s, "get_tenant_metrics",
               <<s.app.tenant_id, s.app.metrics_granularity>>, o.metrics,
               refresh_metrics(s.app, o.metrics))
    ELSE s

refresh(a, o) ==
    LET s0 == Then(Enter(a), refresh_enter(a)) IN
    IF ~o.sdk THEN Then(s0, refresh_sdk_failed(s0.app))
    ELSE
    LET s1 == Await(s0, "connect", <<>>, o.connect,
                    refresh_connect(s0.app, o.connect)) IN
    IF ~IsOk(o.connect) THEN s1
    ELSE
    LET s5 == fetch_metrics(fetch_images(fetch_instances(fetch_health(s1, o), o), o), o)
    IN  Then(s5, refresh_stamp(s5.app))

\* create_sdk and connect of a drill-down method, then the fetch
\* `name(arg).await`, whose match leaves a2
open(a, o, name, arg, a2) ==
    LET s0 == Enter(a) IN
    IF ~o.sdk THEN Then(s0, open_sdk_failed(a))
    ELSE
    LET s1 == Await(s0, "connect", <<>>, o.connect,
                    IF IsOk(o.connect) THEN a ELSE open_connect_failed(a)) IN
    IF ~IsOk(o.connect) THEN s1
    ELSE Await(s1, name, arg, o.fetch, a2)

open_instance_detail(a, o) ==
    IF a.instances = <<>> THEN Enter(a)
    ELSE open(a, o, "get_instance_status",
              <<At(a.instances, a.instances_selected)>>,
              open_instance_detail_fetched(a, o.fetch))

open_checkpoints_list(a, o) ==
    IF ~IsSome(a.instance_detail) THEN Enter(a)
    ELSE open(a, o, "list_checkpoints",
              <<Unwrap(a.instance_detail).instance_id>>,
              open_checkpoints_list_fetched(a, o.fetch))

\* open_checkpoint_detail, reporting an empty checkpoint list as an error
open_checkpoint_detail_reporting(a, o) ==
    IF a.checkpoints = <<>>
    THEN Then(Enter(a), [a EXCEPT !.error = Some(ErrCheckpointNotFound)])
    ELSE open(a, o, "get_checkpoint",
              <<At(a.checkpoints, a.checkpoints_selected).instance_id,
                At(a.checkpoints, a.checkpoints_selected).checkpoint_id>>,
              open_checkpoint_detail_fetched(a, o.fetch))

open_checkpoint_detail(a, o) ==
    IF a.checkpoints = <<>> THEN Enter(a)
    ELSE open(a, o, "get_checkpoint",
              <<At(a.checkpoints, a.checkpoints_selected).instance_id,
                At(a.checkpoints, a.checkpoints_selected).checkpoint_id>>,
              open_checkpoint_detail_fetched(a, o.fetch))

-----
(* The remote server and the SDK: what each call may return.               *)

Unit == <<>>

\* a page of k items numbered from b + 1, reported with total_count t
Page(b, k, t) == [items |-> [i \in 1..k |-> b + i], total_count |-> t]

\* a metrics result of k buckets
Buckets(k) == [buckets |-> [i \in 1..k |-> i]]

\* What the server may answer to the four fetches of a refresh cycle: a
\* health snapshot, pages of up to MaxInstances instances (total_count may
\* exceed the page), pages of up to MaxImages images, up to MaxBuckets
\* buckets.
Server ==
    [health    |-> {Err, Ok("healthy")},
     instances |-> {Err} \cup {Ok(Page(0, k, 2 * k)) : k \in 0..MaxInstances},
     images    |-> {Err} \cup {Ok(Page(0, k, k)) : k \in 0..MaxImages},
     metrics   |-> {Err} \cup {Ok(Buckets(k)) : k \in 0..MaxBuckets}]

\* A server that always has MaxInstances instances, one image and one
\* bucket, and fails no fetch but the instance list.
SteadyServer ==
    [health    |-> {Ok("healthy")},
     instances |-> {Err, Ok(Page(0, MaxInstances, MaxInstances))},
     images    |-> {Ok(Page(0, 1, 1))},
     metrics   |-> {Ok(Buckets(1))}]

\* A server that returns pages of every length up to the bounds and fails
\* no fetch but the metrics.
ReliableServer ==
    [health    |-> {Ok("healthy")},
     instances |-> {Ok(Page(0, k, k)) : k \in 0..MaxInstances},
     images    |-> {Ok(Page(0, k, k)) : k \in 0..MaxImages},
     metrics   |-> {Err} \cup {Ok(Buckets(k)) : k \in 0..MaxBuckets}]

\* A server with one image and one bucket, and pages of up to MaxInstances
\* instances.
SmallServer ==
    [health    |-> {Err, Ok("healthy")},
     instances |-> {Err} \cup {Ok(Page(0, k, k)) : k \in 0..MaxInstances},
     images    |-> {Err, Ok(Page(0, 1, 1))},
     metrics   |-> {Err, Ok(Buckets(1))}]

\* the server answers for the instance / checkpoint it is asked for
InstanceInfoResults(id) == {Err, Ok([instance_id |-> id])}
CheckpointResults(id) ==
    {Err} \cup
    {Ok([items |-> [i \in 1..k |-> [instance_id |-> id, checkpoint_id |-> i]],
         total_count |-> k]) : k \in 0..MaxCheckpoints}
CheckpointDetailResults(iid, cid) ==
    {Err, Ok(None), Ok(Some([instance_id |-> iid, checkpoint_id |-> cid]))}

\* the outcomes of one refresh cycle entered in state a against server E
RefreshOutcomes(E, a) ==
    {[sdk |-> FALSE, connect |-> Err, health |-> Err, instances |-> Err,
      images |-> Err, metrics |-> Err],
     [sdk |-> TRUE, connect |-> Err, health |-> Err, instances |-> Err,
      images |-> Err, metrics |-> Err]}
    \cup
    {[sdk |-> TRUE, connect |-> Ok(Unit), health |-> h, instances |-> i,
      images |-> m, metrics |-> b] :
        h \in E.health, i \in E.instances, m \in E.images,
        b \in IF IsSome(a.tenant_id) THEN E.metrics ELSE {Err}}

\* the outcomes of one drill-down method whose fetch returns one of F
OpenOutcomes(F) ==
    {[sdk |-> FALSE, connect |-> Err, fetch |-> Err],
     [sdk |-> TRUE, connect |-> Err, fetch |-> Err]}
    \cup {[sdk |-> TRUE, connect |-> Ok(Unit), fetch |-> f] : f \in F}

-----------------------------------------------------------------------------
(* run_app: the event loop.                                                *)

TenantIds == {None, Some("tenant")}

\* KeyCode::Char('1') .. KeyCode::Char('4'), by tab index + 1
DigitKeys == <<"1", "2", "3", "4">>

\* The key codes a key press may carry.  "Down" stands for Down and j, "Up"
\* for Up and k, which share their arms; "x" for any code that no arm of
\* any frame names.
KeyCodes ==
    {"q", "Esc", "r", "Tab", "BackTab", "Down", "Up", "1", "2", "3", "4",
     "f", "g", "Enter", "c", "x"}

\* the key codes the arms of a frame name
Mapped(frame) ==
    CASE frame = "List" ->
            {"q", "Esc", "r", "Tab", "BackTab", "Down", "Up",
             "1", "2", "3", "4", "f", "g", "Enter"}
      [] frame = "InstanceDetail" -> {"Esc", "c", "Down", "Up"}
      [] frame = "CheckpointsList" -> {"Esc", "Enter", "Down", "Up"}
      [] frame = "CheckpointDetail" -> {"Esc", "Down", "Up"}

\* the key codes that fall to the `_ => {}` arm of a frame
Unmapped(frame) == KeyCodes \ Mapped(frame)

\* the step read key code k ("none": it read no key press); a behaviour
\* that starts with key = "unrecorded" keeps no record of the keys
Read(k) == key' = IF key = "unrecorded" THEN key ELSE k

Init ==
    /\ app \in {new(t) : t \in TenantIds}
    /\ pc = "start"
    /\ op = "none"
    /\ calls = <<>>
    /\ key = "unrecorded"

\* Init, recording the keys
InitKeys ==
    /\ app \in {new(t) : t \in TenantIds}
    /\ pc = "start"
    /\ op = "none"
    /\ calls = <<>>
    /\ key = "none"

\* a synchronous key handler of frame `frame` leaves a2
Sync(frame, a2) ==
    /\ pc = "poll"
    /\ app.view_mode = frame
    /\ app' = a2
    /\ pc' = "check"
    /\ op' = "none"
    /\ calls' = <<>>

\* an async method ran to its return, leaving s, and the loop goes on at k
Ran(name, s, k) ==
    /\ app' = s.app
    /\ op' = name
    /\ calls' = s.calls
    /\ pc' = k

\* app.refresh().await on the value a, against server E
Refresh(E, a, k) ==
    \E o \in RefreshOutcomes(E, a) :
        Ran("refresh", refresh(a, o), k)

\* main.rs:89, the initial data fetch
Start(E) ==
    /\ pc = "start"
    /\ Refresh(E, app, "poll")
    /\ Read("none")

\* time passes while event::poll waits
Tick ==
    /\ pc = "poll"
    /\ IsSome(app.last_refresh)
    /\ Unwrap(app.last_refresh) < RefreshInterval
    /\ app' = [app EXCEPT !.last_refresh = Some(Unwrap(app.last_refresh) + 1)]
    /\ op' = "none"
    /\ calls' = <<>>
    /\ UNCHANGED <<pc, key>>

\* event::poll timed out, or the event was no key press
NoKey ==
    /\ pc = "poll"
    /\ pc' = "check"
    /\ op' = "none"
    /\ calls' = <<>>
    /\ Read("none")
    /\ UNCHANGED app

\* Check, refreshing only while the List frame is current
Check_at_List(E) ==
    /\ pc = "check"
    /\ IF should_refresh(app) /\ app.view_mode = "List"
       THEN Refresh(E, app, "poll")
       ELSE /\ pc' = "poll"
            /\ op' = "none"
            /\ calls' = <<>>
            /\ UNCHANGED app
    /\ Read("none")

\* main.rs:152-154, the auto-refresh check
Check(E) ==
    /\ pc = "check"
    /\ IF should_refresh(app)
       THEN Refresh(E, app, "poll")
       ELSE /\ pc' = "poll"
            /\ op' = "none"
            /\ calls' = <<>>
            /\ UNCHANGED app
    /\ Read("none")

\* ViewMode::List
List_q ==
    /\ pc = "poll"
    /\ app.view_mode = "List"
    /\ pc' = "done"
    /\ op' = "none"
    /\ calls' = <<>>
    /\ Read("q")
    /\ UNCHANGED app

List_Esc ==
    /\ pc = "poll"
    /\ app.view_mode = "List"
    /\ pc' = "done"
    /\ op' = "none"
    /\ calls' = <<>>
    /\ Read("Esc")
    /\ UNCHANGED app

List_r(E) ==
    /\ pc = "poll"
    /\ app.view_mode = "List"
    /\ Refresh(E, app, "check")
    /\ Read("r")

List_Tab == Sync("List", next_tab(app)) /\ Read("Tab")
List_BackTab == Sync("List", previous_tab(app)) /\ Read("BackTab")
List_Down == Sync("List", next_item(app)) /\ Read("Down")
List_Up == Sync("List", previous_item(app)) /\ Read("Up")
List_Digit ==
    \E d \in 1..4 : Sync("List", set_tab(app, d - 1)) /\ Read(DigitKeys[d])
\* List_f, fetching under the new filter at once
List_f_refreshing ==
    /\ pc = "poll"
    /\ app.view_mode = "List"
    /\ Refresh(SteadyServer, cycle_status_filter(app), "check")
    /\ Read("f")

List_f == Sync("List", cycle_status_filter(app)) /\ Read("f")

List_g(E) ==
    /\ pc = "poll"
    /\ app.view_mode = "List"
    /\ IF app.tab = "Metrics"
       THEN Refresh(E, toggle_metrics_granularity(app), "check")
       ELSE Sync("List", app)
    /\ Read("g")

\* List_Enter, not looking at the tab
List_Enter_any_tab ==
    /\ pc = "poll"
    /\ app.view_mode = "List"
    /\ \E o \in OpenOutcomes(
                    IF app.instances = <<>> THEN {Err}
                    ELSE InstanceInfoResults(
                             At(app.instances, app.instances_selected))) :
           Ran("open_instance_detail", open_instance_detail(app, o), "check")
    /\ Read("Enter")

List_Enter ==
    /\ pc = "poll"
    /\ app.view_mode = "List"
    /\ IF app.tab = "Instances"
       THEN \E o \in OpenOutcomes(
                       IF app.instances = <<>> THEN {Err}
                       ELSE InstanceInfoResults(
                                At(app.instances, app.instances_selected))) :
                Ran("open_instance_detail", open_instance_detail(app, o), "check")
       ELSE Sync("List", app)
    /\ Read("Enter")

\* List_Other, returning to the first tab
List_Other_resetting ==
    Sync("List", set_tab(app, 0)) /\ (\E k \in Unmapped("List") : Read(k))

List_Other == Sync("List", app) /\ (\E k \in Unmapped("List") : Read(k))

\* ViewMode::InstanceDetail
InstanceDetail_Esc == Sync("InstanceDetail", go_back(app)) /\ Read("Esc")

InstanceDetail_c ==
    /\ pc = "poll"
    /\ app.view_mode = "InstanceDetail"
    /\ \E o \in OpenOutcomes(
                    IF ~IsSome(app.instance_detail) THEN {Err}
                    ELSE CheckpointResults(Unwrap(app.instance_detail).instance_id)) :
           Ran("open_checkpoints_list", open_checkpoints_list(app, o), "check")
    /\ Read("c")

\* InstanceDetail_Down, moving the selection of the list underneath
InstanceDetail_Down_selecting ==
    /\ scroll_down(app).detail_scroll \in ScrollWindow
    /\ Sync("InstanceDetail", next_item(app))
    /\ Read("Down")

InstanceDetail_Down ==
    /\ scroll_down(app).detail_scroll \in ScrollWindow
    /\ Sync("InstanceDetail", scroll_down(app))
    /\ Read("Down")

InstanceDetail_Up ==
    /\ scroll_up(app).detail_scroll \in ScrollWindow
    /\ Sync("InstanceDetail", scroll_up(app))
    /\ Read("Up")
InstanceDetail_Other == Sync("InstanceDetail", app) /\ (\E k \in Unmapped("InstanceDetail") : Read(k))

\* ViewMode::CheckpointsList
CheckpointsList_Esc == Sync("CheckpointsList", go_back(app)) /\ Read("Esc")

CheckpointsList_Enter ==
    /\ pc = "poll"
    /\ app.view_mode = "CheckpointsList"
    /\ \E o \in OpenOutcomes(
                    IF app.checkpoints = <<>> THEN {Err}
                    ELSE CheckpointDetailResults(
                             At(app.checkpoints, app.checkpoints_selected).instance_id,
                             At(app.checkpoints, app.checkpoints_selected).checkpoint_id)) :
           Ran("open_checkpoint_detail", open_checkpoint_detail(app, o), "check")
    /\ Read("Enter")

CheckpointsList_Down ==
    Sync("CheckpointsList", next_checkpoint(app)) /\ Read("Down")
CheckpointsList_Up ==
    Sync("CheckpointsList", previous_checkpoint(app)) /\ Read("Up")
CheckpointsList_Other == Sync("CheckpointsList", app) /\ (\E k \in Unmapped("CheckpointsList") : Read(k))

\* ViewMode::CheckpointDetail
CheckpointDetail_Esc == Sync("CheckpointDetail", go_back(app)) /\ Read("Esc")

CheckpointDetail_Down ==
    /\ scroll_down(app).detail_scroll \in ScrollWindow
    /\ Sync("CheckpointDetail", scroll_down(app))
    /\ Read("Down")

CheckpointDetail_Up ==
    /\ scroll_up(app).detail_scroll \in ScrollWindow
    /\ Sync("CheckpointDetail", scroll_up(app))
    /\ Read("Up")
\* CheckpointDetail_Other, returning from run_app as q does at List
CheckpointDetail_Other_quitting ==
    /\ pc = "poll"
    /\ app.view_mode = "CheckpointDetail"
    /\ pc' = "done"
    /\ op' = "none"
    /\ calls' = <<>>
    /\ (\E k \in Unmapped("CheckpointDetail") : Read(k))
    /\ UNCHANGED app

CheckpointDetail_Other == Sync("CheckpointDetail", app) /\ (\E k \in Unmapped("CheckpointDetail") : Read(k))

\* the key handlers that change neither the status filter nor the clock
Keys ==
    \/ NoKey
    \/ List_q
    \/ List_Esc
    \/ List_Tab
    \/ List_BackTab
    \/ List_Down
    \/ List_Up
    \/ List_Digit
    \/ List_Other

\* the drill-down frames
DrillDown ==
    \/ List_Enter
    \/ InstanceDetail_Esc
    \/ InstanceDetail_c
    \/ InstanceDetail_Down
    \/ InstanceDetail_Up
    \/ InstanceDetail_Other
    \/ CheckpointsList_Esc
    \/ CheckpointsList_Enter
    \/ CheckpointsList_Down
    \/ CheckpointsList_Up
    \/ CheckpointsList_Other
    \/ CheckpointDetail_Esc
    \/ CheckpointDetail_Down
    \/ CheckpointDetail_Up
    \/ CheckpointDetail_Other

\* The loop against SmallServer, in every frame.
Next ==
    \/ Start(SmallServer)
    \/ Check(SmallServer)
    \/ List_r(SmallServer)
    \/ List_g(SmallServer)
    \/ Tick
    \/ Keys
    \/ DrillDown

Spec == Init /\ [][Next]_vars

\* The loop against Server, at the base List frame.
NextRefresh ==
    \/ Start(Server)
    \/ Check(Server)
    \/ List_r(Server)
    \/ List_g(Server)
    \/ Keys

SpecRefresh == Init /\ [][NextRefresh]_vars

\* The loop against SteadyServer, in every frame and with every key,
\* recording the keys.
NextKeys ==
    \/ Start(SteadyServer)
    \/ Check(SteadyServer)
    \/ List_r(SteadyServer)
    \/ List_g(SteadyServer)
    \/ List_f
    \/ Tick
    \/ Keys
    \/ DrillDown

SpecKeys == InitKeys /\ [][NextKeys]_vars

\* The loop against ReliableServer, in every frame, recording the keys.
NextSelect ==
    \/ Start(ReliableServer)
    \/ Check(ReliableServer)
    \/ List_r(ReliableServer)
    \/ List_g(ReliableServer)
    \/ Keys
    \/ DrillDown

SpecSelect == InitKeys /\ [][NextSelect]_vars

\* a refresh cycle in which create_sdk, connect and the four fetches succeed
RefreshedOk ==
    [sdk |-> TRUE, connect |-> Ok(Unit), health |-> Ok("healthy"),
     instances |-> Ok(Page(0, MaxInstances, MaxInstances)),
     images |-> Ok(Page(0, 1, 1)), metrics |-> Ok(Buckets(1))]

\* a drill-down method whose create_sdk and connect succeed and whose fetch
\* resolves with f
OpenedOk(f) == [sdk |-> TRUE, connect |-> Ok(Unit), fetch |-> f]

\* the App after the initial refresh and Enter on the first instance
InstanceDetailOpened(t) ==
    open_instance_detail(refresh(new(t), RefreshedOk).app,
                         OpenedOk(Ok([instance_id |-> 1]))).app

\* the App after c and Enter on the first checkpoint of that instance
CheckpointDetailOpened(t) ==
    LET listed ==
            open_checkpoints_list(
                InstanceDetailOpened(t),
                OpenedOk(Ok([items |-> [i \in 1..MaxCheckpoints |->
                                           [instance_id |-> 1, checkpoint_id |-> i]],
                             total_count |-> MaxCheckpoints]))).app
    IN  open_checkpoint_detail(
            listed,
            OpenedOk(Ok(Some([instance_id |-> 1, checkpoint_id |-> 1])))).app

\* The loop waiting for a key in a detail frame, after as many Down presses
\* as bring the scroll offset close to the top of its u16 range.
InitScroll ==
    /\ app \in {[a EXCEPT !.detail_scroll = n] :
                   a \in {InstanceDetailOpened(t) : t \in TenantIds}
                         \cup {CheckpointDetailOpened(t) : t \in TenantIds},
                   n \in (U16Max - MaxScroll)..U16Max}
    /\ pc = "poll"
    /\ op = "none"
    /\ calls = <<>>
    /\ key = "none"

\* The loop against SteadyServer from there on, recording the keys.
NextScroll ==
    \/ Check(SteadyServer)
    \/ List_r(SteadyServer)
    \/ List_g(SteadyServer)
    \/ List_f
    \/ Tick
    \/ Keys
    \/ DrillDown

SpecScroll == InitScroll /\ [][NextScroll]_vars

\* The loop against SteadyServer at the List frame, recording the keys.
NextRetry ==
    \/ Start(SteadyServer)
    \/ Check(SteadyServer)
    \/ List_r(SteadyServer)
    \/ List_g(SteadyServer)
    \/ List_f
    \/ Tick
    \/ Keys

\* run_app is sequential code: while it has not returned, its next statement
\* is executed; event::poll returns within its 100 ms timeout and every
\* remote call within the SDK's connect and request timeouts.
SpecRetry == InitKeys /\ [][NextRetry]_vars /\ WF_vars(NextRetry)

-----------------------------------------------------------------------------
(* run_app with the awaits of the loop as positions of their own: at       *)
(* "await_poll" and "await_check" the loop is suspended in the method named *)
(* by op, and goes on at "poll" or "check" when the method returns.        *)

Awaits == {"await_poll", "await_check"}

\* where the loop goes on after the await
Continuation(p) == IF p = "await_poll" THEN "poll" ELSE "check"

\* Begin, going on with the loop while the method runs as a task of its own
Begin_detached(name, a, p) ==
    /\ app' = a
    /\ op' = name
    /\ calls' = <<>>
    /\ pc' = Continuation(p)

\* app.<name>().await is entered on the value a: the loop is suspended at p
Begin(name, a, p) ==
    /\ app' = a
    /\ op' = name
    /\ calls' = <<>>
    /\ pc' = p

\* main.rs:89
Begin_Start ==
    /\ pc = "start"
    /\ Begin("refresh", app, "await_poll")
    /\ Read("none")

\* main.rs:152-154
Begin_Check ==
    /\ pc = "check"
    /\ IF should_refresh(app)
       THEN Begin("refresh", app, "await_poll")
       ELSE /\ pc' = "poll"
            /\ op' = "none"
            /\ calls' = <<>>
            /\ UNCHANGED app
    /\ Read("none")

\* main.rs:103
Begin_List_r ==
    /\ pc = "poll"
    /\ app.view_mode = "List"
    /\ Begin("refresh", app, "await_check")
    /\ Read("r")

\* main.rs:113-118
Begin_List_g ==
    /\ pc = "poll"
    /\ app.view_mode = "List"
    /\ IF app.tab = "Metrics"
       THEN Begin("refresh", toggle_metrics_granularity(app), "await_check")
       ELSE Sync("List", app)
    /\ Read("g")

\* main.rs:119-123
Begin_List_Enter ==
    /\ pc = "poll"
    /\ app.view_mode = "List"
    /\ IF app.tab = "Instances"
       THEN Begin("open_instance_detail", app, "await_check")
       ELSE Sync("List", app)
    /\ Read("Enter")

\* main.rs:128
Begin_InstanceDetail_c ==
    /\ pc = "poll"
    /\ app.view_mode = "InstanceDetail"
    /\ Begin("open_checkpoints_list", app, "await_check")
    /\ Read("c")

\* main.rs:135
Begin_CheckpointsList_Enter ==
    /\ pc = "poll"
    /\ app.view_mode = "CheckpointsList"
    /\ Begin("open_checkpoint_detail", app, "await_check")
    /\ Read("Enter")

\* the method the loop is suspended in returns
Return(E) ==
    /\ pc \in Awaits
    /\ CASE op = "refresh" -> Refresh(E, app, Continuation(pc))
         [] op = "open_instance_detail" ->
                \E o \in OpenOutcomes(
                            IF app.instances = <<>> THEN {Err}
                            ELSE InstanceInfoResults(
                                     At(app.instances, app.instances_selected))) :
                    Ran(op, open_instance_detail(app, o), Continuation(pc))
         [] op = "open_checkpoints_list" ->
                \E o \in OpenOutcomes(
                            IF ~IsSome(app.instance_detail) THEN {Err}
                            ELSE CheckpointResults(
                                     Unwrap(app.instance_detail).instance_id)) :
                    Ran(op, open_checkpoints_list(app, o), Continuation(pc))
         [] op = "open_checkpoint_detail" ->
                \E o \in OpenOutcomes(
                            IF app.checkpoints = <<>> THEN {Err}
                            ELSE CheckpointDetailResults(
                                     At(app.checkpoints, app.checkpoints_selected).instance_id,
                                     At(app.checkpoints, app.checkpoints_selected).checkpoint_id)) :
                    Ran(op, open_checkpoint_detail(app, o), Continuation(pc))
    /\ UNCHANGED key

\* The loop against SteadyServer with its awaits as positions, in every
\* frame, recording the keys.
NextAwait ==
    \/ Begin_Start
    \/ Begin_Check
    \/ Begin_List_r
    \/ Begin_List_g
    \/ Begin_List_Enter
    \/ Begin_InstanceDetail_c
    \/ Begin_CheckpointsList_Enter
    \/ Return(SteadyServer)
    \/ Tick
    \/ Keys
    \/ InstanceDetail_Esc
    \/ InstanceDetail_Down
    \/ InstanceDetail_Up
    \/ InstanceDetail_Other
    \/ CheckpointsList_Esc
    \/ CheckpointsList_Down
    \/ CheckpointsList_Up
    \/ CheckpointsList_Other
    \/ CheckpointDetail_Esc
    \/ CheckpointDetail_Down
    \/ CheckpointDetail_Up
    \/ CheckpointDetail_Other

SpecAwait == InitKeys /\ [][NextAwait]_vars

-----------------------------------------------------------------------------
(* Reading the log of the method the last step ran.                        *)

Called(log, name) == \E i \in 1..Len(log) : log[i].call = name

ResultOf(log, name) ==
    log[CHOOSE i \in 1..Len(log) : log[i].call = name].result

Succeeded(log, name) == Called(log, name) /\ IsOk(ResultOf(log, name))
Failed(log, name) == Called(log, name) /\ ~IsOk(ResultOf(log, name))

\* number of metrics buckets held
BucketCount(a) == IF IsSome(a.metrics) THEN Len(Unwrap(a.metrics).buckets) ELSE 0

\* the step is a refresh cycle
RefreshStep == op' = "refresh"

\* the App as refresh() was entered by a refresh step: the g key toggles
\* the granularity first
Entered ==
    IF app'.metrics_granularity # app.metrics_granularity
    THEN toggle_metrics_granularity(app)
    ELSE app

-----------------------------------------------------------------------------
(* C1 - C10                                                                *)

ValidSelection(selected, len) ==
    IF len = 0 THEN selected = 0 ELSE selected < len

\* C1: in every reachable state each selection index is a valid index into
\* its collection, or 0 when the collection is empty.
C1_SelectionsValid ==
    /\ ValidSelection(app.instances_selected, Len(app.instances))
    /\ ValidSelection(app.images_selected, Len(app.images))
    /\ ValidSelection(app.metrics_selected, BucketCount(app))
    /\ ValidSelection(app.checkpoints_selected, Len(app.checkpoints))

\* min(k, n - 1) if n > 0, else 0
ClaimedClamp(k, n) == IF n > 0 THEN Min(k, n - 1) ELSE 0

\* C2: a successful fetch of a refresh cycle that replaces a collection
\* leaves the selection at min(k, n - 1) for prior selection k and new
\* length n > 0, and at 0 for n = 0.
C2_ClampOnReplace ==
    [][RefreshStep =>
        /\ Succeeded(calls', "list_instances") =>
               app'.instances_selected =
                   ClaimedClamp(Entered.instances_selected, Len(app'.instances))
        /\ Succeeded(calls', "list_images") =>
               app'.images_selected =
                   ClaimedClamp(Entered.images_selected, Len(app'.images))
        /\ Succeeded(calls', "get_tenant_metrics") =>
               app'.metrics_selected =
                   ClaimedClamp(Entered.metrics_selected, BucketCount(app'))
      ]_vars

\* C3: a refresh cycle whose connect succeeds, whose instance fetch fails
\* and whose image fetch succeeds ends with the returned image list and
\* total, with the instance list, total and selection it started with, and
\* with the instance-fetch error unless the metrics fetch failed too.
C3_PartialFailureCommit ==
    [][(/\ RefreshStep
        /\ Succeeded(calls', "connect")
        /\ Failed(calls', "list_instances")
        /\ Succeeded(calls', "list_images")) =>
        /\ app'.images = Unwrap(ResultOf(calls', "list_images")).items
        /\ app'.images_total = Unwrap(ResultOf(calls', "list_images")).total_count
        /\ app'.instances = app.instances
        /\ app'.instances_total = app.instances_total
        /\ app'.instances_selected = app.instances_selected
        /\ IsSome(app'.error)
        /\ ~Failed(calls', "get_tenant_metrics") => app'.error = Some(ErrInstances)
      ]_vars

\* a cycle of that kind ran over a non-empty instance list with a moved
\* selection and brought a non-empty image list
C3_Witness ==
    /\ op = "refresh"
    /\ Succeeded(calls, "connect")
    /\ Failed(calls, "list_instances")
    /\ Succeeded(calls, "list_images")
    /\ app.instances_selected > 0
    /\ app.instances_selected < Len(app.instances)
    /\ Len(app.images) = MaxImages
    /\ app.error = Some(ErrInstances)

\* the fields the four fetches of a refresh cycle write
HealthData(a) == a.health
InstanceData(a) == <<a.instances, a.instances_total, a.instances_selected>>
ImageData(a) == <<a.images, a.images_total, a.images_selected>>
MetricsData(a) == <<a.metrics, a.metrics_selected>>

\* C4: a refresh cycle whose connect fails sets connected = false, stores
\* the connection-failure message, issues no fetch, and leaves health,
\* instances, images and metrics with their totals and selections as they
\* were.
C4_ConnectFailureAborts ==
    [][(RefreshStep /\ Failed(calls', "connect")) =>
        /\ app'.connected = FALSE
        /\ app'.error = Some(ErrConnect)
        /\ Len(calls') = 1
        /\ HealthData(app') = HealthData(Entered)
        /\ InstanceData(app') = InstanceData(Entered)
        /\ ImageData(app') = ImageData(Entered)
        /\ MetricsData(app') = MetricsData(Entered)
      ]_vars

\* connect failed in a cycle entered while connected, with data of every
\* kind on display
C4_Witness ==
    /\ op = "refresh"
    /\ Failed(calls, "connect")
    /\ ~app.connected
    /\ IsSome(app.health)
    /\ app.instances_selected > 0
    /\ app.images_selected > 0
    /\ BucketCount(app) > 0

\* C5: every refresh cycle, also one whose connect fails, ends with the
\* last-refresh timestamp set to now, so that auto-refresh is not due.
C5_AlwaysStamped ==
    op = "refresh" => (app.last_refresh = Some(0) /\ ~should_refresh(app))

\* the names of the calls of a log, in order
CallNames(log) == [i \in 1..Len(log) |-> log[i].call]

\* C6: a refresh cycle whose connect succeeds attempts health check,
\* instance list, image list and tenant metrics in this order, whatever the
\* earlier ones returned, the metrics fetch iff a tenant is configured.
C6_FetchOrder ==
    (op = "refresh" /\ Succeeded(calls, "connect")) =>
        CallNames(calls) =
            <<"connect", "health_check", "list_instances", "list_images">>
            \o (IF IsSome(app.tenant_id) THEN <<"get_tenant_metrics">> ELSE <<>>)

\* health, instance and image fetch all failed and the metrics fetch was
\* still made
C6_Witness ==
    /\ op = "refresh"
    /\ Failed(calls, "health_check")
    /\ Failed(calls, "list_instances")
    /\ Failed(calls, "list_images")
    /\ Succeeded(calls, "get_tenant_metrics")
    /\ BucketCount(app) = MaxBuckets

\* the message of each fetch of a refresh cycle
FetchError(name) ==
    CASE name = "health_check" -> ErrHealth
      [] name = "list_instances" -> ErrInstances
      [] name = "list_images" -> ErrImages
      [] name = "get_tenant_metrics" -> ErrMetrics

\* the positions of the failed fetches of a refresh cycle's log
FailedFetches(log) ==
    {i \in 2..Len(log) : ~IsOk(log[i].result)}

\* the greatest element of a non-empty set of numbers
Last(S) == CHOOSE i \in S : \A j \in S : j <= i

\* C7: when several fetches of a refresh cycle fail, the error slot ends
\* with the message of the last one that failed, and every fetch that
\* succeeded has committed its result.
C7_LastErrorWins ==
    (/\ op = "refresh"
     /\ Succeeded(calls, "connect")
     /\ Cardinality(FailedFetches(calls)) >= 2) =>
        /\ app.error = Some(FetchError(calls[Last(FailedFetches(calls))].call))
        /\ Succeeded(calls, "health_check") =>
               app.health = Some(Unwrap(ResultOf(calls, "health_check")))
        /\ Succeeded(calls, "list_instances") =>
               /\ app.instances = Unwrap(ResultOf(calls, "list_instances")).items
               /\ app.instances_total =
                      Unwrap(ResultOf(calls, "list_instances")).total_count
        /\ Succeeded(calls, "list_images") =>
               /\ app.images = Unwrap(ResultOf(calls, "list_images")).items
               /\ app.images_total =
                      Unwrap(ResultOf(calls, "list_images")).total_count
        /\ Succeeded(calls, "get_tenant_metrics") =>
               app.metrics = Some(Unwrap(ResultOf(calls, "get_tenant_metrics")))

\* health and image fetch failed, the instance fetch between them and the
\* metrics fetch after them committed
C7_Witness ==
    /\ op = "refresh"
    /\ Failed(calls, "health_check")
    /\ Succeeded(calls, "list_instances")
    /\ Failed(calls, "list_images")
    /\ Succeeded(calls, "get_tenant_metrics")
    /\ Len(app.instances) = MaxInstances
    /\ app.error = Some(ErrImages)

-----------------------------------------------------------------------------
(* The drill-down methods as steps.                                        *)

OpenOps == {"open_instance_detail", "open_checkpoints_list", "open_checkpoint_detail"}

\* the fetch of each drill-down method, its error message, the frame it
\* is dispatched from and the frame it pushes
FetchOf(name) ==
    CASE name = "open_instance_detail" -> "get_instance_status"
      [] name = "open_checkpoints_list" -> "list_checkpoints"
      [] name = "open_checkpoint_detail" -> "get_checkpoint"

OpenError(name) ==
    CASE name = "open_instance_detail" -> ErrInstanceDetail
      [] name = "open_checkpoints_list" -> ErrCheckpoints
      [] name = "open_checkpoint_detail" -> ErrCheckpoint

Pushed(name) ==
    CASE name = "open_instance_detail" -> "InstanceDetail"
      [] name = "open_checkpoints_list" -> "CheckpointsList"
      [] name = "open_checkpoint_detail" -> "CheckpointDetail"

\* the method got past its first guard on a
Attempted(name, a) ==
    CASE name = "open_instance_detail" -> a.instances # <<>>
      [] name = "open_checkpoints_list" -> IsSome(a.instance_detail)
      [] name = "open_checkpoint_detail" -> a.checkpoints # <<>>

\* get_checkpoint answered Ok(None)
NotFound(log) ==
    /\ Succeeded(log, "get_checkpoint")
    /\ ~IsSome(Unwrap(ResultOf(log, "get_checkpoint")))

\* the fetch of the method brought a record
OpenSucceeded(name, log) ==
    /\ Succeeded(log, FetchOf(name))
    /\ ~NotFound(log)

\* the step is a drill-down method that got past its guard and failed
OpenFailedStep ==
    /\ op' \in OpenOps
    /\ Attempted(op', app)
    /\ ~OpenSucceeded(op', calls')

\* the step is a drill-down method whose fetch brought a record
OpenSucceededStep ==
    /\ op' \in OpenOps
    /\ OpenSucceeded(op', calls')

\* what refresh() does not fetch
FrameData(a) ==
    <<a.tab, a.view_mode, a.status_filter, a.instance_detail, a.checkpoints,
      a.checkpoints_total, a.checkpoints_selected, a.checkpoint_detail,
      a.detail_scroll>>

\* C8: a failed fetch changes nothing but the error slot: a failed
\* drill-down method leaves every other field; a failed fetch of a refresh
\* cycle leaves the data it would have replaced, the frame data and the
\* connected flag set by the cycle's connect, and alone in its cycle leaves
\* its message; only a failed connect of a refresh cycle clears connected.
C8_FailedFetchKeepsData ==
    [][/\ OpenFailedStep =>
              /\ IsSome(app'.error)
              /\ app' = [app EXCEPT !.error = app'.error]
       /\ (RefreshStep /\ Succeeded(calls', "connect")) =>
              /\ Failed(calls', "health_check") =>
                     HealthData(app') = HealthData(Entered)
              /\ Failed(calls', "list_instances") =>
                     InstanceData(app') = InstanceData(Entered)
              /\ Failed(calls', "list_images") =>
                     ImageData(app') = ImageData(Entered)
              /\ Failed(calls', "get_tenant_metrics") =>
                     MetricsData(app') = MetricsData(Entered)
              /\ FrameData(app') = FrameData(Entered)
              /\ app'.connected
              /\ \A i \in FailedFetches(calls') :
                     FailedFetches(calls') = {i} =>
                         app'.error = Some(FetchError(calls'[i].call))
       /\ (RefreshStep /\ Failed(calls', "connect")) =>
              app' = [Entered EXCEPT !.error = Some(ErrConnect),
                                     !.connected = FALSE]
      ]_vars

\* the instance fetch alone failed in a cycle that ran while the
\* checkpoint list of an instance was open
C8_Witness ==
    /\ op = "refresh"
    /\ FailedFetches(calls) = {3}
    /\ app.view_mode = "CheckpointsList"
    /\ app.checkpoints_selected > 0
    /\ app.instances_selected > 0
    /\ app.error = Some(ErrInstances)

\* the message a failed drill-down method leaves
ExpectedOpenError(name, log) ==
    IF log = <<>> THEN ErrCreateSdk
    ELSE IF Failed(log, "connect") THEN ErrConnect
    ELSE IF NotFound(log) THEN ErrCheckpointNotFound
    ELSE OpenError(name)

\* C9: a drill-down method that fails at client creation, at connect, at
\* the request or by a not-found answer sets the error slot (to the
\* not-found message in the last case) and leaves the frame kind.
C9_FailedOpenKeepsFrame ==
    [][OpenFailedStep =>
        /\ app'.error = Some(ExpectedOpenError(op', calls'))
        /\ app'.view_mode = app.view_mode
      ]_vars

\* get_checkpoint answered not found at CheckpointsList
C9_Witness ==
    /\ op = "open_checkpoint_detail"
    /\ NotFound(calls)
    /\ app.view_mode = "CheckpointsList"
    /\ app.error = Some(ErrCheckpointNotFound)

\* C10 as stated: each successful drill-down fetch pushes its frame and
\* leaves the detail scroll offset at zero.
C10_OpenResetsScroll ==
    (op \in OpenOps /\ OpenSucceeded(op, calls)) =>
        /\ app.view_mode = Pushed(op)
        /\ app.detail_scroll = 0

\* C10 amended: each successful drill-down fetch pushes its frame; opening
\* the instance detail or the checkpoint detail leaves the detail scroll
\* offset at zero, opening the checkpoint list leaves it as it was.
C10_OpenPushesFrame ==
    [][OpenSucceededStep =>
        /\ app.view_mode # Pushed(op')
        /\ app'.view_mode = Pushed(op')
        /\ app'.detail_scroll =
               IF op' = "open_checkpoints_list" THEN app.detail_scroll ELSE 0
      ]_vars

\* the checkpoint list was opened from a scrolled instance detail, and
\* the offset is still there
C10_Witness ==
    /\ op = "open_checkpoints_list"
    /\ OpenSucceeded(op, calls)
    /\ app.view_mode = "CheckpointsList"
    /\ Len(app.checkpoints) = MaxCheckpoints
    /\ app.detail_scroll > 0

-----------------------------------------------------------------------------
(* C11 - C20                                                               *)

\* depth of a frame kind along List, InstanceDetail, CheckpointsList,
\* CheckpointDetail
Level(v) ==
    CASE v = "List" -> 0
      [] v = "InstanceDetail" -> 1
      [] v = "CheckpointsList" -> 2
      [] v = "CheckpointDetail" -> 3

\* C11: every change of the frame kind moves exactly one level deeper (a
\* push, by a drill-down method) or exactly one level back (a pop, by
\* go_back); no step skips a level, and go_back at the base List frame
\* leaves the frame kind unchanged.
C11_AdjacentFrames ==
    [][/\ app'.view_mode # app.view_mode =>
              \/ /\ Level(app'.view_mode) = Level(app.view_mode) + 1
                 /\ op' \in OpenOps
              \/ /\ Level(app'.view_mode) = Level(app.view_mode) - 1
                 /\ app' = go_back(app)
       /\ app.view_mode = "List" => go_back(app).view_mode = "List"
      ]_vars

\* Esc popped the CheckpointDetail frame, three levels deep
C11_Witness ==
    /\ key = "Esc"
    /\ app.view_mode = "CheckpointsList"
    /\ app.checkpoints # <<>>

\* the step handles a press of key code k read in frame kind v
Pressed(k, v) ==
    /\ pc = "poll"
    /\ app.view_mode = v
    /\ key' = k

\* the step ends the loop
Terminates == pc # "done" /\ pc' = "done"

\* C12: at the base List frame Esc is a no-op: it does not end the loop
\* and changes no state; only the quit key q ends the loop.
C12_EscAtBaseNoOp ==
    [][/\ Pressed("Esc", "List") => (~Terminates /\ app' = app)
       /\ Terminates => key' = "q"
      ]_vars

\* the frame kinds above the base
DetailFrames == {"InstanceDetail", "CheckpointsList", "CheckpointDetail"}

C14_DetailOnlyInFrame ==
    /\ IsSome(app.instance_detail) => app.view_mode \in DetailFrames
    /\ IsSome(app.checkpoint_detail) => app.view_mode = "CheckpointDetail"

\* Esc popped the InstanceDetail frame and its record is gone
C14_Witness ==
    /\ key = "Esc"
    /\ pc = "check"
    /\ app.view_mode = "List"
    /\ app.instance_detail = None
    /\ app.checkpoint_detail = None

\* a frame holds the record its fetch brought (the List frame that the
\* loop starts with needs none)
FrameHasRecord ==
    /\ app.view_mode = "CheckpointDetail" => IsSome(app.checkpoint_detail)
    /\ app.view_mode \in DetailFrames => IsSome(app.instance_detail)

\* C15: a frame is current only after its own successful fetch: at
\* CheckpointDetail a checkpoint detail record is present, at
\* InstanceDetail or deeper an instance detail record is present, and
\* CheckpointDetail is entered from CheckpointsList only by a get_checkpoint
\* that returned a record.
C15_FrameAfterFetch ==
    [][/\ FrameHasRecord'
       /\ (app.view_mode = "CheckpointsList" /\ app'.view_mode = "CheckpointDetail") =>
              /\ op' = "open_checkpoint_detail"
              /\ Succeeded(calls', "get_checkpoint")
              /\ IsSome(Unwrap(ResultOf(calls', "get_checkpoint")))
              /\ app'.checkpoint_detail = Unwrap(ResultOf(calls', "get_checkpoint"))
      ]_vars

\* get_checkpoint returned a record and the CheckpointDetail frame holds it
C15_Witness ==
    /\ op = "open_checkpoint_detail"
    /\ app.view_mode = "CheckpointDetail"
    /\ app.checkpoint_detail = Unwrap(ResultOf(calls, "get_checkpoint"))
    /\ IsSome(app.instance_detail)

\* C16: popping a frame releases its data: at List or InstanceDetail the
\* checkpoint collection is empty with total 0 and selection 0, and at
\* List the instance detail is absent.
C16_PopReleasesData ==
    /\ app.view_mode \in {"List", "InstanceDetail"} =>
           /\ app.checkpoints = <<>>
           /\ app.checkpoints_total = 0
           /\ app.checkpoints_selected = 0
    /\ app.view_mode = "List" => app.instance_detail = None

\* Esc popped the CheckpointsList frame and the checkpoints are gone
C16_Witness ==
    /\ key = "Esc"
    /\ app.view_mode = "InstanceDetail"
    /\ app.checkpoints = <<>>
    /\ app.checkpoints_selected = 0
    /\ IsSome(app.instance_detail)

\* the frames that display the checkpoint collection of an instance
CheckpointFrames == {"CheckpointsList", "CheckpointDetail"}

\* the checkpoints held belong to the instance whose detail is held
CheckpointsOfHeldInstance(a) ==
    /\ IsSome(a.instance_detail)
    /\ \A i \in 1..Len(a.checkpoints) :
           a.checkpoints[i].instance_id = Unwrap(a.instance_detail).instance_id

\* C17: at CheckpointsList or CheckpointDetail the checkpoint collection
\* held is the one fetched for the instance id of the instance detail held:
\* open_checkpoints_list asks for that id and stores what it gets, and no
\* step between these frames, refresh cycles included, changes the
\* instance detail or the collection.
C17_CheckpointsOfInstance ==
    [][/\ app'.view_mode \in CheckpointFrames => CheckpointsOfHeldInstance(app')
       /\ (op' = "open_checkpoints_list" /\ Succeeded(calls', "list_checkpoints")) =>
              /\ calls'[Len(calls')].arg = <<Unwrap(app.instance_detail).instance_id>>
              /\ app'.checkpoints = Unwrap(ResultOf(calls', "list_checkpoints")).items
              /\ app'.instance_detail = app.instance_detail
       /\ (app.view_mode \in CheckpointFrames /\ app'.view_mode \in CheckpointFrames) =>
              /\ app'.instance_detail = app.instance_detail
              /\ app'.checkpoints = app.checkpoints
              /\ app'.checkpoints_total = app.checkpoints_total
      ]_vars

\* a refresh cycle emptied the instance list while the checkpoints of
\* instance 2 were displayed, and detail and checkpoints are still held
C17_Witness ==
    /\ op = "refresh"
    /\ Succeeded(calls, "list_instances")
    /\ app.instances = <<>>
    /\ app.view_mode = "CheckpointsList"
    /\ Len(app.checkpoints) = MaxCheckpoints
    /\ Unwrap(app.instance_detail).instance_id = 2
    /\ CheckpointsOfHeldInstance(app)

\* C18: drill-down is reachable only from the Instances tab: in every
\* reachable state whose frame is not List the active tab is Instances.
C18_DrillDownOnInstancesTab ==
    app.view_mode # "List" => app.tab = "Instances"

\* Tab was read at InstanceDetail and the tab is still Instances
C18_Witness ==
    /\ key = "Tab"
    /\ pc = "check"
    /\ app.view_mode = "InstanceDetail"
    /\ app.tab = "Instances"

\* what the keys of the List frame control
BaseControls(a) ==
    <<a.tab, a.status_filter, a.metrics_granularity,
      a.instances_selected, a.images_selected, a.metrics_selected>>

\* C19: while the frame is InstanceDetail, CheckpointsList or
\* CheckpointDetail, no key changes the active tab, the status filter, the
\* metrics granularity or the instance, image and metrics selections.
C19_BaseControlsFrozen ==
    [][\A v \in DetailFrames : \A k \in KeyCodes :
           Pressed(k, v) => BaseControls(app') = BaseControls(app)
      ]_vars

\* f was read at InstanceDetail, opened on the second instance under a
\* filter other than All, and filter and selection are as they were
C19_Witness ==
    /\ key = "f"
    /\ pc = "check"
    /\ app.view_mode = "InstanceDetail"
    /\ app.status_filter # "All"
    /\ app.instances_selected > 0

\* C20: in every frame a key that no arm of the frame names leaves the
\* whole App unchanged, issues no remote call and does not end the loop.
C20_UnmappedKeyNoOp ==
    [][\A v \in ViewModes : \A k \in Unmapped(v) :
           Pressed(k, v) =>
               /\ app' = app
               /\ op' = "none"
               /\ calls' = <<>>
               /\ ~Terminates
      ]_vars

\* c, which InstanceDetail maps, was read at List on the Metrics tab
C20_Witness ==
    /\ key = "c"
    /\ pc = "check"
    /\ app.view_mode = "List"
    /\ app.tab = "Metrics"

-----------------------------------------------------------------------------
(* C21 - C30                                                               *)

\* the step handles a key press
KeyStep == pc = "poll" /\ key' \in KeyCodes

\* C21: whenever an error message is in the error slot, the next key press,
\* of any kind and in any frame, leaves the error slot empty (stated for
\* the key presses that run no method, which cannot bring a new message).
C21_InputDismissesError ==
    [][(KeyStep /\ op' = "none" /\ IsSome(app.error)) => app'.error = None]_vars

\* every call of the log succeeded, the connect among them
AllSucceeded(log) ==
    /\ Succeeded(log, "connect")
    /\ \A i \in 1..Len(log) : IsOk(log[i].result)

\* C22: every refresh cycle starts by clearing the error slot, so a cycle
\* whose connect and every attempted fetch succeed ends with no error
\* message, whatever message was there before it.
C22_CleanCycleClearsError ==
    [][(RefreshStep /\ AllSucceeded(calls')) => app'.error = None]_vars

\* a cycle without failure ran while the checkpoint list was open
C22_Witness ==
    /\ op = "refresh"
    /\ AllSucceeded(calls)
    /\ app.error = None
    /\ app.view_mode = "CheckpointsList"

\* no cycle has left a timestamp, or the time elapsed since the timestamp
\* is at least the refresh interval
ClaimedDue(a) ==
    \/ a.last_refresh = None
    \/ IsSome(a.last_refresh) /\ Unwrap(a.last_refresh) >= RefreshInterval

\* C23: auto-refresh is due exactly when no refresh has left a timestamp or
\* the time elapsed since the timestamp is at least the refresh interval;
\* every loop iteration that does not end the loop comes to the check, in
\* every frame and with or without a key press, and a due check always
\* starts a refresh cycle (and a check that is not due starts none).
C23_AutoRefreshDue ==
    [][/\ pc = "check" =>
              /\ should_refresh(app) <=> ClaimedDue(app)
              /\ ClaimedDue(app) <=> op' = "refresh"
              /\ pc' = "poll"
       /\ (pc = "poll" /\ (key' \in KeyCodes \/ pc' # "poll")) =>
              (pc' = "check" \/ Terminates)
      ]_vars

\* the interval elapsed while the checkpoint detail was open, and the check
\* started a cycle
C23_Witness ==
    /\ pc = "poll"
    /\ op = "refresh"
    /\ Succeeded(calls, "connect")
    /\ app.view_mode = "CheckpointDetail"
    /\ app.last_refresh = Some(0)

\* a remote operation is in flight: the loop is suspended in its method
InFlight == pc \in Awaits

\* the methods that issue remote calls
RemoteOps == {"refresh"} \cup OpenOps

\* C24: at most one remote operation is in flight at any time: between the
\* start of an operation and its return no key is dispatched, no
\* auto-refresh check is made and no second operation starts; every
\* operation that starts suspends the loop, and remote calls are issued
\* only by the operation in flight.
C24_OneInFlight ==
    [][/\ InFlight =>
              /\ op' = op
              /\ key' = key
              /\ pc' = Continuation(pc)
       /\ (~InFlight /\ op' \in RemoteOps) => (InFlight' /\ calls' = <<>>)
       /\ calls' # <<>> => InFlight
      ]_vars

\* the loop is suspended in the drill-down fetch started by Enter at the
\* checkpoint list
C24_Witness ==
    /\ pc = "await_check"
    /\ op = "open_checkpoint_detail"
    /\ key = "Enter"
    /\ app.view_mode = "CheckpointsList"

\* the step runs no method and issues no remote call
NoRemoteCall == op' = "none" /\ calls' = <<>>

\* C25 as stated: apart from item opening (Enter, c) and the refresh key
\* (r), every key action (tab switch, selection move, status-filter cycle,
\* metrics-granularity toggle, go back, scroll) is a synchronous mutation
\* that issues no remote call.
C25_OnlyOpenAndRefreshCall ==
    [][(KeyStep /\ key' \notin {"Enter", "c", "r"}) => NoRemoteCall]_vars

\* C25 amended: apart from item opening, the refresh key and the
\* granularity key on the Metrics tab, every key action issues no remote
\* call; the granularity key on the Metrics tab toggles the granularity
\* and then runs a refresh cycle with it.
C25_SyncActionsNoCall ==
    [][/\ (KeyStep /\ key' \notin {"Enter", "c", "r", "g"}) => NoRemoteCall
       /\ (KeyStep /\ key' = "g") =>
              IF app.view_mode = "List" /\ app.tab = "Metrics"
              THEN /\ op' = "refresh"
                   /\ app'.metrics_granularity # app.metrics_granularity
                   /\ Called(calls', "get_tenant_metrics") =>
                          calls'[Len(calls')].arg =
                              <<app.tenant_id, app'.metrics_granularity>>
              ELSE NoRemoteCall /\ app' = app
      ]_vars

\* f cycled the status filter at the List frame and no call was issued
C25_Witness ==
    /\ key = "f"
    /\ pc = "check"
    /\ app.view_mode = "List"
    /\ app.status_filter = "Running"
    /\ op = "none"
    /\ calls = <<>>

\* the result of a call in a log, Err for a call the log does not have
ResultOrErr(log, name) ==
    IF Called(log, name) THEN ResultOf(log, name) ELSE Err

\* the outcomes that a refresh cycle with this log of calls met
OutcomeOf(log) ==
    [sdk       |-> log # <<>>,
     connect   |-> ResultOrErr(log, "connect"),
     health    |-> ResultOrErr(log, "health_check"),
     instances |-> ResultOrErr(log, "list_instances"),
     images    |-> ResultOrErr(log, "list_images"),
     metrics   |-> ResultOrErr(log, "get_tenant_metrics")]

\* the step is one full refresh cycle on the App as it was
FullRefreshCycle ==
    /\ op' = "refresh"
    /\ app' = refresh(app, OutcomeOf(calls')).app
    /\ calls' = refresh(app, OutcomeOf(calls')).calls

\* the auto-refresh check finds a refresh due
AutoRefreshDue == pc = "check" /\ should_refresh(app)

\* C26 as stated: the refresh key and the auto-refresh trigger are treated
\* alike in every frame: each starts a full refresh cycle of the List-level
\* data, also while InstanceDetail, CheckpointsList or CheckpointDetail is
\* current.
C26_RefreshAlikeInEveryFrame ==
    [][/\ AutoRefreshDue => FullRefreshCycle
       /\ (KeyStep /\ key' = "r") => FullRefreshCycle
      ]_vars

\* C26 amended: the auto-refresh trigger starts a full refresh cycle of the
\* List-level data in every frame; the refresh key starts the same cycle
\* at the List frame only, and in the other frames does nothing.
C26_RefreshPerFrame ==
    [][/\ AutoRefreshDue => FullRefreshCycle
       /\ (KeyStep /\ key' = "r") =>
              IF app.view_mode = "List"
              THEN FullRefreshCycle
              ELSE NoRemoteCall /\ app' = app
      ]_vars

\* an auto-refresh cycle ran while the instance detail was open, and
\* fetched the image list
C26_Witness ==
    /\ pc = "poll"
    /\ op = "refresh"
    /\ app.view_mode = "InstanceDetail"
    /\ Succeeded(calls, "list_images")
    /\ app.images = Unwrap(ResultOf(calls, "list_images")).items

\* the fixed order of the status filters
FilterOrder == <<"All", "Running", "Completed", "Failed", "Pending", "Suspended">>

\* the position of a filter value in the fixed order
FilterIndex(f) == CHOOSE i \in 1..Len(FilterOrder) : FilterOrder[i] = f

RECURSIVE CycleFilter(_, _)
\* cycle_status_filter applied n times
CycleFilter(a, n) ==
    IF n = 0 THEN a ELSE CycleFilter(cycle_status_filter(a), n - 1)

\* C27: cycle_status_filter advances through All, Running, Completed,
\* Failed, Pending, Suspended and wraps to All; from any filter value six
\* applications return to it and fewer than six never do.  The f key
\* applies it once.
C27_FilterCycle ==
    [][/\ cycle_status_filter(app) =
              [app EXCEPT !.status_filter =
                  FilterOrder[(FilterIndex(app.status_filter) % Len(FilterOrder)) + 1]]
       /\ CycleFilter(app, 6) = app
       /\ \A n \in 1..5 : CycleFilter(app, n).status_filter # app.status_filter
       /\ (KeyStep /\ key' = "f" /\ app.view_mode = "List") =>
              app' = cycle_status_filter(app)
      ]_vars

\* f wrapped the filter from Suspended to All
C27_Witness ==
    /\ key = "f"
    /\ pc = "check"
    /\ app.view_mode = "List"
    /\ app.status_filter = "All"

\* length of the collection behind the active tab (Health has none)
ActiveLen(a) ==
    CASE a.tab = "Instances" -> Len(a.instances)
      [] a.tab = "Images" -> Len(a.images)
      [] a.tab = "Metrics" -> BucketCount(a)
      [] a.tab = "Health" -> 0

RECURSIVE NextItemTimes(_, _)
\* next_item applied n times
NextItemTimes(a, n) ==
    IF n = 0 THEN a ELSE NextItemTimes(next_item(a), n - 1)

RECURSIVE PreviousItemTimes(_, _)
\* previous_item applied n times
PreviousItemTimes(a, n) ==
    IF n = 0 THEN a ELSE PreviousItemTimes(previous_item(a), n - 1)

RECURSIVE NextCheckpointTimes(_, _)
\* next_checkpoint applied n times
NextCheckpointTimes(a, n) ==
    IF n = 0 THEN a ELSE NextCheckpointTimes(next_checkpoint(a), n - 1)

RECURSIVE PreviousCheckpointTimes(_, _)
\* previous_checkpoint applied n times
PreviousCheckpointTimes(a, n) ==
    IF n = 0 THEN a ELSE PreviousCheckpointTimes(previous_checkpoint(a), n - 1)

\* C28: in every reachable state, for the collection behind the active tab
\* and for the checkpoint collection, of length n >= 1, move-next applied n
\* times and move-previous applied n times return to the starting
\* selection, and move-previous undoes move-next; on an empty collection
\* both change nothing.
C28_CyclicSelection ==
    /\ IF ActiveLen(app) >= 1
       THEN /\ NextItemTimes(app, ActiveLen(app)) = app
            /\ PreviousItemTimes(app, ActiveLen(app)) = app
            /\ previous_item(next_item(app)) = app
       ELSE /\ next_item(app) = app
            /\ previous_item(app) = app
    /\ IF Len(app.checkpoints) >= 1
       THEN /\ NextCheckpointTimes(app, Len(app.checkpoints)) = app
            /\ PreviousCheckpointTimes(app, Len(app.checkpoints)) = app
            /\ previous_checkpoint(next_checkpoint(app)) = app
       ELSE /\ next_checkpoint(app) = app
            /\ previous_checkpoint(app) = app

\* the second of two checkpoints is selected, under a list whose images
\* and metrics buckets had their second item selected too
C28_Witness ==
    /\ app.view_mode = "CheckpointsList"
    /\ Len(app.checkpoints) = MaxCheckpoints
    /\ app.checkpoints_selected = 1
    /\ Len(app.images) = MaxImages
    /\ app.images_selected = 1
    /\ BucketCount(app) = MaxBuckets
    /\ app.metrics_selected = 1

\* the other granularity
Flipped(g) == IF g = "Hourly" THEN "Daily" ELSE "Hourly"

\* the step handles the g key where it acts: at List on the Metrics tab
GranularityKeyStep ==
    /\ KeyStep
    /\ key' = "g"
    /\ app.view_mode = "List"
    /\ app.tab = "Metrics"

\* C29: toggle_metrics_granularity flips the granularity between Hourly
\* and Daily and leaves the metrics selection at 0, whatever it was; the
\* selection is still 0 after the refresh cycle that the g key runs,
\* whether the cycle succeeds or fails.
C29_ToggleResetsSelection ==
    [][/\ toggle_metrics_granularity(app) =
              [app EXCEPT !.metrics_granularity = Flipped(app.metrics_granularity),
                          !.metrics_selected = 0]
       /\ GranularityKeyStep =>
              /\ op' = "refresh"
              /\ app'.metrics_granularity = Flipped(app.metrics_granularity)
              /\ app'.metrics_selected = 0
      ]_vars

\* the cycle run by g failed at the metrics fetch, and the two buckets of
\* the other granularity are still held with selection 0
C29_Witness ==
    /\ key = "g"
    /\ op = "refresh"
    /\ Failed(calls, "get_tenant_metrics")
    /\ BucketCount(app) = MaxBuckets
    /\ app.metrics_granularity = "Daily"
    /\ app.metrics_selected = 0

\* the tabs in the order of the tab bar
TabOrder == <<"Instances", "Images", "Metrics", "Health">>

TabIndex(t) == CHOOSE i \in 1..Len(TabOrder) : TabOrder[i] = t

RECURSIVE NextTabTimes(_, _)
NextTabTimes(a, n) == IF n = 0 THEN a ELSE NextTabTimes(next_tab(a), n - 1)

RECURSIVE PreviousTabTimes(_, _)
PreviousTabTimes(a, n) ==
    IF n = 0 THEN a ELSE PreviousTabTimes(previous_tab(a), n - 1)

\* a Tab or BackTab press read at the List frame
TabKeyStep(k) ==
    /\ KeyStep
    /\ key' = k
    /\ app.view_mode = "List"

\* C30: next_tab and previous_tab rotate over the four tabs in the order
\* Instances, Images, Metrics, Health: next_tab moves one place forward and
\* previous_tab one place back, both wrapping; each undoes the other; four
\* applications of either give back the starting state; neither changes a
\* field other than tab; and the Tab and BackTab keys at the List frame do
\* exactly this and nothing else.
C30_TabRotation ==
    [][/\ next_tab(app) =
              [app EXCEPT !.tab = TabOrder[(TabIndex(app.tab) % 4) + 1]]
       /\ previous_tab(app) =
              [app EXCEPT !.tab = TabOrder[((TabIndex(app.tab) + 2) % 4) + 1]]
       /\ previous_tab(next_tab(app)) = app
       /\ next_tab(previous_tab(app)) = app
       /\ NextTabTimes(app, 4) = app
       /\ PreviousTabTimes(app, 4) = app
       /\ \A n \in 1..3 : /\ NextTabTimes(app, n).tab # app.tab
                          /\ PreviousTabTimes(app, n).tab # app.tab
       /\ TabKeyStep("Tab") =>
              /\ op' = "none"
              /\ app' = [app EXCEPT !.tab = TabOrder[(TabIndex(app.tab) % 4) + 1]]
       /\ TabKeyStep("BackTab") =>
              /\ op' = "none"
              /\ app' = [app EXCEPT
                             !.tab = TabOrder[((TabIndex(app.tab) + 2) % 4) + 1]]
      ]_vars

\* BackTab has just wrapped from Instances to Health, with an instance
\* other than the first one selected
C30_Witness ==
    /\ key = "BackTab"
    /\ pc = "check"
    /\ app.view_mode = "List"
    /\ app.tab = "Health"
    /\ app.instances_selected = 1
    /\ Len(app.instances) = MaxInstances

-----------------------------------------------------------------------------
(* C31 - C37                                                               *)

\* a key press read in one of the two frames whose arms scroll
ScrollKeyStep(k) ==
    /\ KeyStep
    /\ key' = k
    /\ app.view_mode \in {"InstanceDetail", "CheckpointDetail"}

\* C31: the detail scroll offset stays in the range of a u16; a Down press
\* in a scrolling frame adds one to it, except at U16Max where it stays at
\* U16Max, and so never lowers it; an Up press takes one from it, except
\* at 0 where it stays at 0; scroll_up and scroll_down change no other
\* field.
C31_SaturatingScroll ==
    [][/\ app.detail_scroll \in 0..U16Max
       /\ app'.detail_scroll \in 0..U16Max
       /\ scroll_down(app) =
              [app EXCEPT !.detail_scroll =
                              IF app.detail_scroll = U16Max THEN U16Max
                              ELSE app.detail_scroll + 1]
       /\ scroll_up(app) =
              [app EXCEPT !.detail_scroll =
                              IF app.detail_scroll = 0 THEN 0
                              ELSE app.detail_scroll - 1]
       /\ ScrollKeyStep("Down") =>
              /\ app' = scroll_down(app)
              /\ app'.detail_scroll >= app.detail_scroll
              /\ app.detail_scroll = U16Max => app'.detail_scroll = U16Max
       /\ ScrollKeyStep("Up") =>
              /\ app' = scroll_up(app)
              /\ app'.detail_scroll <= app.detail_scroll
              /\ app.detail_scroll = 0 => app'.detail_scroll = 0
      ]_vars

\* a Down press has left the offset of the checkpoint detail at U16Max
C31_Witness ==
    /\ key = "Down"
    /\ pc = "check"
    /\ app.view_mode = "CheckpointDetail"
    /\ app.detail_scroll = U16Max

\* the selected instance and the selected checkpoint exist whenever their
\* collection has an item
IndexInRange(a) ==
    /\ a.instances # <<>> => a.instances_selected \in 0..(Len(a.instances) - 1)
    /\ a.checkpoints # <<>> =>
           a.checkpoints_selected \in 0..(Len(a.checkpoints) - 1)

\* C32: after every step of the loop the selected index of a non-empty
\* instance list and of a non-empty checkpoint list is below its length, so
\* that a step which makes open_instance_detail read
\* instances[instances_selected], or open_checkpoint_detail read
\* checkpoints[checkpoints_selected], finds the index below the length.
C32_IndexInRange ==
    [][/\ IndexInRange(app')
       /\ (op' = "open_instance_detail" /\ app.instances # <<>>) =>
              app.instances_selected < Len(app.instances)
       /\ (op' = "open_checkpoint_detail" /\ app.checkpoints # <<>>) =>
              app.checkpoints_selected < Len(app.checkpoints)
      ]_vars

\* open_instance_detail has read the last item of a full page and opened
\* the frame, the message of an earlier failure still in the error slot
C32_Witness ==
    /\ op = "open_instance_detail"
    /\ pc = "check"
    /\ Len(app.instances) = MaxInstances
    /\ app.instances_selected = MaxInstances - 1
    /\ app.view_mode = "InstanceDetail"
    /\ IsSome(app.error)

\* the frame, what the keys of the List frame have chosen, and what the
\* drill-down frames hold
NavigationState(a) ==
    <<a.view_mode, a.tab, a.status_filter, a.metrics_granularity,
      a.instance_detail, a.checkpoints, a.checkpoints_total,
      a.checkpoints_selected, a.checkpoint_detail, a.detail_scroll>>

\* C33: a step of the loop that runs refresh, whatever create_sdk, connect
\* and the four fetches return, leaves the frame kind, the tab, the status
\* filter, the metrics granularity, the instance detail, the checkpoint
\* list with its total and selection, the checkpoint detail and the scroll
\* offset as they were when refresh was entered: as they were before the
\* step, but for the granularity that the g key, read at the List frame on
\* the Metrics tab, flips before it calls refresh.
C33_RefreshKeepsNavigation ==
    [][RefreshStep =>
           /\ NavigationState(app') = NavigationState(Entered)
           /\ (pc # "poll" \/ app.view_mode # "List" \/ app.tab # "Metrics") =>
                  NavigationState(app') = NavigationState(app)
      ]_vars

\* an auto-refresh ran all four fetches, the health and image fetches
\* failing, while the second checkpoint's detail was open and scrolled
C33_Witness ==
    /\ op = "refresh"
    /\ pc = "poll"
    /\ Failed(calls, "health_check")
    /\ Failed(calls, "list_images")
    /\ Called(calls, "get_tenant_metrics")
    /\ app.view_mode = "CheckpointDetail"
    /\ app.checkpoints_selected = MaxCheckpoints - 1
    /\ IsSome(app.checkpoint_detail)
    /\ app.detail_scroll = MaxScroll

\* no refresh cycle has got past its connect step: the timestamp, written
\* at the end of every cycle that did, is absent
NeverConnected(a) == ~IsSome(a.last_refresh)

\* the step is the auto-refresh check of an iteration that finds the App
\* never connected
RetryStep == pc = "check" /\ NeverConnected(app)

\* every connect issued by the step succeeds
ConnectSucceeds ==
    \A i \in 1..Len(calls') : calls'[i].call = "connect" => IsOk(calls'[i].result)

\* every refresh cycle run by the step gets an SDK and connects
CycleConnects == RefreshStep => Succeeded(calls', "connect")

\* the loop never returns
LoopRuns == [](pc # "done")

\* a cycle has connected and left its timestamp
ConnectedAndStamped == app.connected /\ IsSome(app.last_refresh)

\* C34 as stated: while no refresh cycle has got past connect, the
\* auto-refresh check of every iteration runs a cycle that issues a connect;
\* and if the loop keeps running and from some time on every connect
\* succeeds, then eventually connected is true and a timestamp is recorded.
C34_ConnectEveryIteration ==
    /\ [][RetryStep => (RefreshStep /\ Called(calls', "connect"))]_vars
    /\ (LoopRuns /\ <>[][ConnectSucceeds]_vars) => <>ConnectedAndStamped

\* C34: while no refresh cycle has got past connect, connected is false and
\* the auto-refresh check of every iteration runs a cycle, which issues a
\* connect unless create_sdk fails; and if the loop keeps running and from
\* some time on every cycle gets its SDK and connects, then eventually
\* connected is true and a timestamp is recorded.
C34_RetryUntilConnected ==
    /\ [][RetryStep =>
              /\ ~app.connected
              /\ should_refresh(app)
              /\ RefreshStep
              /\ calls' = <<>> \/ calls'[1].call = "connect"
              /\ calls' = <<>> => app'.error = Some(ErrCreateSdk)
         ]_vars
    /\ (LoopRuns /\ <>[][CycleConnects]_vars) => <>ConnectedAndStamped

\* after a key moved the tab, the auto-refresh check ran a cycle whose
\* connect failed, and still no cycle has connected
C34_Witness ==
    /\ op = "refresh"
    /\ pc = "poll"
    /\ app.tab = "Images"
    /\ Failed(calls, "connect")
    /\ NeverConnected(app)
    /\ ~app.connected

\* the step runs one of the three drill-down methods
DrillDownStep ==
    op' \in {"open_instance_detail", "open_checkpoints_list",
             "open_checkpoint_detail"}

\* C35: connected is false and no timestamp is recorded before the first
\* refresh cycle; a refresh cycle leaves connected equal to the outcome of
\* its connect (false when create_sdk failed) and records a timestamp
\* exactly when it connected; every other step, and in particular a
\* drill-down method whether its own connect succeeds or fails, leaves
\* connected and the timestamp as they were (the passing of time only ages
\* the timestamp).  Hence connected always equals the connect outcome of
\* the most recent refresh cycle.
C35_ConnectedByRefreshOnly ==
    [][/\ pc = "start" => ~app.connected /\ app.last_refresh = None
       /\ RefreshStep =>
              /\ app'.connected = Succeeded(calls', "connect")
              /\ app'.last_refresh =
                     IF Succeeded(calls', "connect") THEN Some(0)
                     ELSE app.last_refresh
       /\ ~RefreshStep =>
              /\ app'.connected = app.connected
              /\ IsSome(app'.last_refresh) = IsSome(app.last_refresh)
       /\ DrillDownStep =>
              /\ app'.connected = app.connected
              /\ app'.last_refresh = app.last_refresh
      ]_vars

\* the connect of open_checkpoints_list failed while connected is true and
\* a timestamp is recorded
C35_Witness ==
    /\ op = "open_checkpoints_list"
    /\ key = "c"
    /\ Failed(calls, "connect")
    /\ app.error = Some(ErrConnect)
    /\ app.connected
    /\ IsSome(app.last_refresh)

RECURSIVE GoBackTimes(_, _)
GoBackTimes(a, n) == IF n = 0 THEN a ELSE GoBackTimes(go_back(a), n - 1)

\* the List frame with nothing of a drill-down left
AtBase(a) ==
    /\ a.view_mode = "List"
    /\ a.instance_detail = None
    /\ a.checkpoint_detail = None
    /\ a.checkpoints = <<>>
    /\ a.detail_scroll = 0

\* C36: in every state of the loop, as many go_back calls as the frame is
\* deep, and so three of them at most, lead to the List frame with no
\* instance detail, no checkpoint detail, no checkpoints and the scroll
\* offset 0; fewer do not reach List; the scroll offset is 0 whenever the
\* frame is List; and Esc in a drill-down frame is one go_back.
C36_BackToBase ==
    [][/\ AtBase(GoBackTimes(app, Level(app.view_mode)))
       /\ AtBase(GoBackTimes(app, 3))
       /\ \A n \in 0..(Level(app.view_mode) - 1) :
              GoBackTimes(app, n).view_mode # "List"
       /\ app.view_mode = "List" => app.detail_scroll = 0
       /\ app'.view_mode = "List" => app'.detail_scroll = 0
       /\ \A v \in DetailFrames : Pressed("Esc", v) => app' = go_back(app)
      ]_vars

\* Esc closed the InstanceDetail frame of the last instance of the page and
\* the loop is back at the List frame with nothing of the drill-down left
C36_Witness ==
    /\ key = "Esc"
    /\ pc = "check"
    /\ AtBase(app)
    /\ app.instances_selected = MaxInstances - 1
    /\ app.checkpoints_total = 0
    /\ app.checkpoints_selected = 0

\* the step changes no field of App and issues no remote call
NoOpStep == app' = app /\ calls' = <<>>

\* C37: open_instance_detail with no instances, open_checkpoint_detail with
\* no checkpoints and open_checkpoints_list with no instance detail return
\* at once, whatever the server would have answered: no remote call, no
\* error, no field changed; the key steps that call them in such a state
\* change nothing; and Enter on a tab other than Instances and g on a tab
\* other than Metrics call no method and change nothing.
C37_EmptyOpenNoOp ==
    [][/\ \A o \in OpenOutcomes({Err, Ok(None)}) :
              /\ app.instances = <<>> => open_instance_detail(app, o) = Enter(app)
              /\ app.checkpoints = <<>> =>
                     open_checkpoint_detail(app, o) = Enter(app)
              /\ ~IsSome(app.instance_detail) =>
                     open_checkpoints_list(app, o) = Enter(app)
       /\ (Pressed("Enter", "List") /\ app.tab = "Instances"
                                    /\ app.instances = <<>>) =>
              op' = "open_instance_detail" /\ NoOpStep
       /\ (Pressed("Enter", "CheckpointsList") /\ app.checkpoints = <<>>) =>
              op' = "open_checkpoint_detail" /\ NoOpStep
       /\ (Pressed("c", "InstanceDetail") /\ ~IsSome(app.instance_detail)) =>
              op' = "open_checkpoints_list" /\ NoOpStep
       /\ (Pressed("Enter", "List") /\ app.tab # "Instances") =>
              op' = "none" /\ NoOpStep
       /\ (Pressed("g", "List") /\ app.tab # "Metrics") =>
              op' = "none" /\ NoOpStep
      ]_vars

\* Enter on an empty checkpoint list returned at once, and the message of
\* an earlier failure is still in the error slot
C37_Witness ==
    /\ key = "Enter"
    /\ op = "open_checkpoint_detail"
    /\ pc = "check"
    /\ calls = <<>>
    /\ app.view_mode = "CheckpointsList"
    /\ app.checkpoints = <<>>
    /\ IsSome(app.error)

====
